---- MODULE Spec2Model ----
(***************************************************************************)
(* Model of the persisted-state bridge of the user dashboard:              *)
(*   src/src/hooks/useLocalStorage.ts            (useLocalStorage)         *)
(*   src/src/features/user-dashboard/context/UserDashboardContext.tsx      *)
(*                                               (useUserDashboardState)   *)
(* Two browser tabs share one localStorage.  Every consumer is one mounted *)
(* instance of the hook on the dashboard key.  A raw stored string is a    *)
(* sequence of JSON tokens; JSON.stringify and JSON.parse are computed on  *)
(* those tokens.  Object identity (Object.is) is modelled by a reference   *)
(* id carried next to every value the hook hands out.                      *)
(***************************************************************************)
EXTENDS Integers, Sequences, FiniteSets, TLC

(***************************************************************************)
(* Bounds                                                                  *)
(***************************************************************************)
MaxQueue == 1          \* undelivered native storage events per tab

(***************************************************************************)
(* JavaScript / JSON values                                                *)
(***************************************************************************)
JNull == [type |-> "null"]
JUndefined == [type |-> "undefined"]
JNum(n) == [type |-> "num", n |-> n]
JStr(s) == [type |-> "str", s |-> s]
JArr(items) == [type |-> "arr", items |-> items]
JObj(fields) == [type |-> "obj", fields |-> fields]

IsPrimitive(v) == v.type \in {"null", "undefined", "num", "str"}

\* index of property k in an object's field list, 0 when absent
RECURSIVE FieldIndexFrom(_, _, _)
FieldIndexFrom(fields, k, i) ==
  IF i > Len(fields) THEN 0
  ELSE IF fields[i].k = k THEN i
  ELSE FieldIndexFrom(fields, k, i + 1)

FieldIndex(fields, k) == FieldIndexFrom(fields, k, 1)

\* obj[k] = v on an ordered property list: an existing key keeps its place
SetField(fields, k, v) ==
  LET i == FieldIndex(fields, k)
  IN IF i = 0 THEN Append(fields, [k |-> k, v |-> v])
     ELSE [fields EXCEPT ![i] = [k |-> k, v |-> v]]

\* the own enumerable properties that { ...v } copies
SpreadFields(v) == IF v.type = "obj" THEN v.fields ELSE << >>

\* v.k : TypeError on null and undefined, undefined when the property is absent
GetProp(v, k) ==
  IF v.type \in {"null", "undefined"} THEN [threw |-> TRUE, val |-> JUndefined]
  ELSE IF v.type = "obj" /\ FieldIndex(v.fields, k) # 0
       THEN [threw |-> FALSE, val |-> v.fields[FieldIndex(v.fields, k)].v]
       ELSE [threw |-> FALSE, val |-> JUndefined]

FieldKeys(fields) == {fields[i].k : i \in 1..Len(fields)}

\* structural equality as toEqual compares: property order is irrelevant
RECURSIVE DeepEqual(_, _)
DeepEqual(a, b) ==
  IF a.type # b.type THEN FALSE
  ELSE IF a.type = "arr"
       THEN /\ Len(a.items) = Len(b.items)
            /\ \A i \in 1..Len(a.items) : DeepEqual(a.items[i], b.items[i])
  ELSE IF a.type = "obj"
       THEN /\ FieldKeys(a.fields) = FieldKeys(b.fields)
            /\ \A k \in FieldKeys(a.fields) :
                 DeepEqual(GetProp(a, k).val, GetProp(b, k).val)
  ELSE a = b

(***************************************************************************)
(* JSON text: a raw string is a sequence of tokens                         *)
(***************************************************************************)
P(c) == [k |-> "p", c |-> c]
StrTok(s) == [k |-> "str", s |-> s]
NumTok(n) == [k |-> "num", n |-> n]
LitTok(w) == [k |-> "lit", w |-> w]
BadTok(w) == [k |-> "bad", w |-> w]

RECURSIVE JSONStringify(_)
RECURSIVE StringifyItems(_, _)
RECURSIVE StringifyFields(_, _)

StringifyItems(items, i) ==
  IF i > Len(items) THEN << >>
  ELSE (IF i > 1 THEN <<P(",")>> ELSE << >>)
         \o JSONStringify(items[i]) \o StringifyItems(items, i + 1)

StringifyFields(fields, i) ==
  IF i > Len(fields) THEN << >>
  ELSE (IF i > 1 THEN <<P(",")>> ELSE << >>)
         \o <<StrTok(fields[i].k), P(":")>>
         \o JSONStringify(fields[i].v) \o StringifyFields(fields, i + 1)

JSONStringify(v) ==
  CASE v.type = "null" -> <<LitTok("null")>>
    [] v.type = "num" -> <<NumTok(v.n)>>
    [] v.type = "str" -> <<StrTok(v.s)>>
    [] v.type = "arr" -> <<P("[")>> \o StringifyItems(v.items, 1) \o <<P("]")>>
    [] v.type = "obj" -> <<P("{")>> \o StringifyFields(v.fields, 1) \o <<P("}")>>

ParseFail == [ok |-> FALSE, val |-> JUndefined, rest |-> << >>]

IsP(toks, c) == toks # << >> /\ Head(toks).k = "p" /\ Head(toks).c = c

RECURSIVE ParseValue(_)
RECURSIVE ParseElements(_, _)
RECURSIVE ParseMembers(_, _)

\* after "[" or after a ",": one element, then "," or "]"
ParseElements(toks, acc) ==
  LET e == ParseValue(toks)
  IN IF ~e.ok THEN ParseFail
     ELSE IF IsP(e.rest, ",") THEN ParseElements(Tail(e.rest), Append(acc, e.val))
     ELSE IF IsP(e.rest, "]")
          THEN [ok |-> TRUE, val |-> JArr(Append(acc, e.val)), rest |-> Tail(e.rest)]
     ELSE ParseFail

\* after "{" or after a ",": "key" ":" value, then "," or "}"
ParseMembers(toks, acc) ==
  IF toks = << >> \/ Head(toks).k # "str" \/ ~IsP(Tail(toks), ":") THEN ParseFail
  ELSE LET e == ParseValue(Tail(Tail(toks)))
           fields == SetField(acc, Head(toks).s, e.val)
       IN IF ~e.ok THEN ParseFail
          ELSE IF IsP(e.rest, ",") THEN ParseMembers(Tail(e.rest), fields)
          ELSE IF IsP(e.rest, "}")
               THEN [ok |-> TRUE, val |-> JObj(fields), rest |-> Tail(e.rest)]
          ELSE ParseFail

ParseValue(toks) ==
  IF toks = << >> THEN ParseFail
  ELSE LET h == Head(toks)
           t == Tail(toks)
       IN CASE h.k = "lit" -> [ok |-> TRUE, val |-> JNull, rest |-> t]
            [] h.k = "num" -> [ok |-> TRUE, val |-> JNum(h.n), rest |-> t]
            [] h.k = "str" -> [ok |-> TRUE, val |-> JStr(h.s), rest |-> t]
            [] h.k = "p" /\ h.c = "[" ->
                 IF IsP(t, "]") THEN [ok |-> TRUE, val |-> JArr(<< >>), rest |-> Tail(t)]
                 ELSE ParseElements(t, << >>)
            [] h.k = "p" /\ h.c = "{" ->
                 IF IsP(t, "}") THEN [ok |-> TRUE, val |-> JObj(<< >>), rest |-> Tail(t)]
                 ELSE ParseMembers(t, << >>)
            [] OTHER -> ParseFail

\* JSON.parse(text): threw is a SyntaxError
JSONParse(text) ==
  LET r == ParseValue(text)
  IN IF r.ok /\ r.rest = << >> THEN [threw |-> FALSE, val |-> r.val]
     ELSE [threw |-> TRUE, val |-> JUndefined]

(***************************************************************************)
(* Program constants and the inputs the model draws from                   *)
(***************************************************************************)
USER_DASHBOARD_STATE == "userDashboardState"
OtherKey == "someOtherKey"      \* a key no consumer is mounted on
NullKey == "null"               \* StorageEvent.key === null (store cleared)
Keys == {USER_DASHBOARD_STATE, OtherKey}

DashState(q, perms) ==
  JObj(<<[k |-> "searchQuery", v |-> JStr(q)],
         [k |-> "selectedPermissions", v |-> JArr(perms)]>>)

DEFAULT_STATE == DashState("", << >>)

Consumers == {"A", "B", "C"}
Tabs == {1, 2}
Tab(c) == IF c = "C" THEN 2 ELSE 1
Key(c) == USER_DASHBOARD_STATE

SearchQueries == {"a"}
Permissions == {"admin"}

\* values a caller passes to setValue as a literal
LiteralValues == {DashState("a", << >>), DEFAULT_STATE}

\* the three updaters of useUserDashboardState
Updaters ==
  {[op |-> "setSearchQuery", q |-> q] : q \in SearchQueries}
    \cup {[op |-> "togglePermission", p |-> p] : p \in Permissions}
    \cup {[op |-> "setSelectedPermissions", perms |-> ps] : ps \in {<< >>}}

\* raw strings an earlier session may have left under the dashboard key
SeedTexts ==
  { << >>,                                                \* ""
    <<BadTok("invalid"), BadTok("json"), P("{")>>,        \* invalid json {
    <<LitTok("null")>>,                                   \* null
    <<NumTok(5)>>,                                        \* 5
    <<P("{"), StrTok("searchQuery"), P(":"), StrTok("a"), P("}")>>,
    JSONStringify(DashState("a", <<JStr("admin")>>)) }

\* raw strings a foreign document stores while the consumers run
ForeignTexts ==
  { <<BadTok("invalid"), BadTok("json"), P("{")>>,
    <<LitTok("null")>>,
    JSONStringify(DashState("a", <<JStr("admin")>>)) }

\* what such a document stores under the other key
OtherTexts == { <<NumTok(5)>> }

TextsFor(k) == IF k = USER_DASHBOARD_STATE THEN ForeignTexts ELSE OtherTexts

(***************************************************************************)
(* localStorage                                                            *)
(***************************************************************************)
NoItem == [present |-> FALSE, text |-> << >>]      \* getItem returns null
Item(text) == [present |-> TRUE, text |-> text]
EmptyStore == [k \in Keys |-> NoItem]

\* if (item): null and "" are falsy
Truthy(item) == item.present /\ item.text # << >>

(***************************************************************************)
(* References handed out by the hook                                       *)
(***************************************************************************)
NoRef == [id |-> -1, val |-> JUndefined]
DefaultRef == [id |-> 1, val |-> DEFAULT_STATE]   \* the DEFAULT_STATE object

Fresh(live) == CHOOSE i \in 2..(Cardinality(live) + 2) : i \notin live

\* JSON.parse allocates a new object; primitives have no identity
NewRef(val, live) ==
  [id |-> IF IsPrimitive(val) THEN 0 ELSE Fresh(live), val |-> val]

ObjectIs(a, b) ==
  IF IsPrimitive(a.val) \/ IsPrimitive(b.val) THEN a.val = b.val ELSE a.id = b.id

(***************************************************************************)
(* useLocalStorage: getSnapshot                                            *)
(***************************************************************************)
NullCache == [isNull |-> TRUE]

\* lines 73-85 and 91-101: reuse the cached reference when the serialized
\* form is the one cached, otherwise replace the cache
CommitSnapshotNoCache(cache, newValue, serialized) ==
  [ret |-> newValue,
   cache |-> [isNull |-> FALSE, value |-> newValue, serialized |-> serialized]]

CommitSnapshotStale(cache, newValue, serialized) ==
  IF ~cache.isNull
  THEN [ret |-> cache.value, cache |-> cache]
  ELSE [ret |-> newValue,
        cache |-> [isNull |-> FALSE, value |-> newValue, serialized |-> serialized]]

CommitSnapshot(cache, newValue, serialized) ==
  IF ~cache.isNull /\ cache.serialized = serialized
  THEN [ret |-> cache.value, cache |-> cache]
  ELSE [ret |-> newValue,
        cache |-> [isNull |-> FALSE, value |-> newValue, serialized |-> serialized]]

\* the catch block of getSnapshot
SnapshotCatchStale(cache) ==
  IF ~cache.isNull THEN [ret |-> cache.value, cache |-> cache]
  ELSE CommitSnapshot(cache, DefaultRef, JSONStringify(DEFAULT_STATE))

SnapshotCatch(cache) ==
  CommitSnapshot(cache, DefaultRef, JSONStringify(DEFAULT_STATE))

getSnapshot(store, available, key, cache, live) ==
  IF ~available THEN SnapshotCatch(cache)              \* getItem throws
  ELSE LET item == store[key]
       IN IF Truthy(item)
          THEN LET p == JSONParse(item.text)
               IN IF p.threw THEN SnapshotCatch(cache)
                  ELSE CommitSnapshot(cache, NewRef(p.val, live), item.text)
          ELSE CommitSnapshot(cache, DefaultRef, JSONStringify(DEFAULT_STATE))

\* lines 105-120: localStorage is not read; the cache is the one getSnapshot
\* uses
getServerSnapshotStale(cache) ==
  IF ~cache.isNull THEN [ret |-> cache.value, cache |-> cache]
  ELSE [ret |-> DefaultRef,
        cache |-> [isNull |-> FALSE, value |-> DefaultRef,
                   serialized |-> JSONStringify(DEFAULT_STATE)]]

getServerSnapshot(cache) ==
  LET serialized == JSONStringify(DEFAULT_STATE)
  IN IF ~cache.isNull /\ cache.serialized = serialized
     THEN [ret |-> cache.value, cache |-> cache]
     ELSE [ret |-> DefaultRef,
           cache |-> [isNull |-> FALSE, value |-> DefaultRef,
                      serialized |-> serialized]]

(***************************************************************************)
(* useUserDashboardState: the updaters handed to setState                  *)
(***************************************************************************)
\* { ...prevState, [k]: v }
SpreadWithOnly(prevState, k, v) == JObj(<<[k |-> k, v |-> v]>>)

SpreadWith(prevState, k, v) == JObj(SetField(SpreadFields(prevState), k, v))

RemoveItem(items, x) == SelectSeq(items, LAMBDA y : y # x)
Includes(items, x) == \E i \in 1..Len(items) : items[i] = x

\* lines 66-74; reading .selectedPermissions of null, or calling .includes on
\* a value that is not an array, is a TypeError
TogglePermissionUpdaterAddOnly(prevState, permission) ==
  LET sp == GetProp(prevState, "selectedPermissions")
  IN IF sp.threw \/ sp.val.type # "arr" THEN [threw |-> TRUE, val |-> JUndefined]
     ELSE [threw |-> FALSE,
           val |-> SpreadWith(prevState, "selectedPermissions",
                              JArr(Append(sp.val.items, JStr(permission))))]

TogglePermissionUpdater(prevState, permission) ==
  LET sp == GetProp(prevState, "selectedPermissions")
  IN IF sp.threw \/ sp.val.type # "arr" THEN [threw |-> TRUE, val |-> JUndefined]
     ELSE LET updatedPermissions ==
                IF Includes(sp.val.items, JStr(permission))
                THEN RemoveItem(sp.val.items, JStr(permission))
                ELSE Append(sp.val.items, JStr(permission))
          IN [threw |-> FALSE,
              val |-> SpreadWith(prevState, "selectedPermissions",
                                 JArr(updatedPermissions))]

ApplyUpdater(u, prevState) ==
  CASE u.op = "setSearchQuery" ->
         [threw |-> FALSE, val |-> SpreadWith(prevState, "searchQuery", JStr(u.q))]
    [] u.op = "setSelectedPermissions" ->
         [threw |-> FALSE,
          val |-> SpreadWith(prevState, "selectedPermissions", JArr(u.perms))]
    [] u.op = "togglePermission" -> TogglePermissionUpdater(prevState, u.p)

\* lines 76-82: what the provider hands to the tree; threw is a render error
DashboardView(state) ==
  LET q == GetProp(state, "searchQuery")
      sp == GetProp(state, "selectedPermissions")
  IN [threw |-> q.threw \/ sp.threw,
      searchQuery |-> q.val,
      selectedPermissions |-> sp.val]

(***************************************************************************)
(* State                                                                   *)
(***************************************************************************)
VARIABLES
  localStorage,     \* the shared store: key -> item
  storeAvailable,   \* FALSE: every access to localStorage throws
  hook,             \* per consumer: mounted, storedValue, cache, read history
  listeners,        \* per tab: the window's registered listeners <<type, c>>
  storageEvents,    \* per tab: keys of the native "storage" events not yet
                    \* delivered, oldest first
  pendingWrite,     \* a setValue(updater) between its read and its write:
                    \* the consumer, the value to write, and the item the
                    \* store held when the updater read it
  last,             \* what the last step did
  lastWritten,      \* the value of the last successful setValue, while no
                    \* other write to the key followed
  fUsers,           \* filterUsers: the users argument
  fQuery,           \* filterUsers: the searchQuery argument
  fSelected,        \* filterUsers: the selectedPermissions argument
  fCall,            \* filterUsers: the last call made and what it returned
  sbValue,          \* UserSearchBox: the value prop (the persisted query)
  sbDraft,          \* UserSearchBox: draftValue, what the input shows
  sbLast,           \* UserSearchBox: what the last step did
  aHook,            \* useAsync: the state of the one consumer
  aQueue,           \* useAsync: state updates not yet rendered
  aTimer,           \* useAsync: the timers set and not cleared or fired
  aLast,            \* useAsync: what the last step did
  aSource           \* useAsync: whether the store the input comes from has
                    \* changed

storeVars == <<localStorage, storeAvailable, hook, listeners, storageEvents,
               pendingWrite, last, lastWritten>>
filterVars == <<fUsers, fQuery, fSelected, fCall>>
searchVars == <<sbValue, sbDraft, sbLast>>
asyncVars == <<aHook, aQueue, aTimer, aLast, aSource>>

vars == <<storeVars, filterVars, searchVars, asyncVars>>

\* the parts of the program a specification does not exercise stay as built
StoreUnused ==
  /\ storeAvailable = TRUE
  /\ localStorage = [k \in {"userDashboardState", "someOtherKey"} |->
                       [present |-> FALSE, text |-> << >>]]
  /\ hook = << >>
  /\ listeners = << >>
  /\ storageEvents = << >>
  /\ pendingWrite = [active |-> FALSE]
  /\ last = [op |-> "quiet", notified |-> {}]
  /\ lastWritten = [set |-> FALSE]

FilterUnused ==
  /\ fUsers = << >> /\ fQuery = << >> /\ fSelected = << >>
  /\ fCall = [kind |-> "none"]

SearchUnused ==
  /\ sbValue = << >> /\ sbDraft = << >> /\ sbLast = [op |-> "none"]

AsyncUnused ==
  /\ aHook = [mounted |-> FALSE] /\ aQueue = << >> /\ aTimer = {}
  /\ aLast = [op |-> "none"]
  /\ aSource = [stale |-> FALSE, held |-> FALSE]

NoHook ==
  [mounted |-> FALSE, tornDown |-> FALSE, storedValue |-> NoRef,
   cache |-> NullCache, lastRet |-> NoRef, since |-> 0, stable |-> TRUE]

\* the record of a consumer after its teardown
TornDown == [NoHook EXCEPT !.tornDown = TRUE]

NoPending == [active |-> FALSE]
NoneWritten == [set |-> FALSE]
\* a tab runs one task at a time: nothing else runs in the tab of a setValue
\* that has read and not yet written.  Reads of two tabs commute, so letting
\* one setValue at a time be between its read and its write loses no
\* interleaving of the store accesses.
Idle(t) == ~(pendingWrite.active /\ Tab(pendingWrite.c) = t)

\* a step that dispatches no event and calls no setValue
Quiet == [op |-> "quiet", notified |-> {}]

Live(h) ==
  {h.storedValue.id, h.lastRet.id}
    \cup (IF h.cache.isNull THEN {} ELSE {h.cache.value.id})

\* Only equality of ids is observable, so the object ids a consumer holds are
\* renumbered 2, 3, 4 in the order storedValue, cache, lastRet.
Canon(h) ==
  LET s == h.storedValue.id
      k == IF h.cache.isNull THEN -1 ELSE h.cache.value.id
      Ren(x) == IF x < 2 THEN x
                ELSE IF x = s THEN 2
                ELSE IF x = k THEN (IF s >= 2 THEN 3 ELSE 2)
                ELSE 2 + Cardinality({y \in {s, k} : y >= 2})
      ReRef(r) == [r EXCEPT !.id = Ren(@)]
  IN [h EXCEPT !.storedValue = ReRef(@),
               !.lastRet = ReRef(@),
               !.cache = IF @.isNull THEN @ ELSE [@ EXCEPT !.value = ReRef(@)]]

\* one call of getSnapshot by the consumer whose record is h.  lastRet is the
\* reference returned; since counts the consumer's calls (0, 1, 2 or more)
\* after the last change of the raw string; stable records that every call
\* that followed another with the raw string unchanged returned the reference
\* of that other call.
Read(h, store, available) ==
  LET r == getSnapshot(store, available, USER_DASHBOARD_STATE, h.cache, Live(h))
  IN Canon([h EXCEPT !.cache = r.cache,
                     !.lastRet = r.ret,
                     !.since = IF @ = 0 THEN 1 ELSE 2,
                     !.stable = /\ h.stable
                                /\ \/ h.lastRet = NoRef
                                   \/ h.since = 0
                                   \/ ObjectIs(h.lastRet, r.ret)])

\* useSyncExternalStore: a render returns getSnapshot()
Render(h, store, available) ==
  LET h1 == Read(h, store, available)
  IN Canon([h1 EXCEPT !.storedValue = h1.lastRet])

\* useSyncExternalStore: onStoreChange re-renders when the snapshot is not
\* Object.is the value of the last render
OnStoreChange(h, store, available) ==
  LET h1 == Read(h, store, available)
  IN IF ObjectIs(h.storedValue, h1.lastRet) THEN h1
     ELSE Render(h1, store, available)

\* lines 124-129
handleStorageChangeNoNull(key, eventKey) == eventKey = key

handleStorageChangeOnlyNull(key, eventKey) == eventKey = NullKey

handleStorageChange(key, eventKey) == eventKey = key \/ eventKey = NullKey

\* lines 135-139
handleCustomStorageChangeNever(key, detail) == FALSE

handleCustomStorageChange(key, detail) == detail = key

\* lines 131 and 141: the two listeners subscribe registers
subscribe(c) == {<<"storage", c>>, <<"localStorageChange", c>>}

\* lines 143-149: the listeners the returned cleanup removes
unsubscribeLeak(c) == {<<"storage", c>>}

unsubscribe(c) == {<<"storage", c>>, <<"localStorageChange", c>>}

\* line 158: the updater is called with getSnapshot(), not with the value
\* of the consumer's last render
UpdaterArgumentRendered(snapshot, rendered) == rendered

UpdaterArgument(snapshot, rendered) == snapshot

\* localStorage.setItem: throws when the store is unavailable or over quota
setItemIfAbsent(store, available, key, text, quotaOk) ==
  IF ~available \/ ~quotaOk THEN [threw |-> TRUE, store |-> store]
  ELSE [threw |-> FALSE,
        store |-> IF store[key].present THEN store
                  ELSE [store EXCEPT ![key] = Item(text)]]

setItem(store, available, key, text, quotaOk) ==
  IF available /\ quotaOk
  THEN [threw |-> FALSE, store |-> [store EXCEPT ![key] = Item(text)]]
  ELSE [threw |-> TRUE, store |-> store]

\* lines 160-162: setItem runs before dispatchEvent, so listeners see the
\* store after the write
StoreAtDispatchEarly(before, after) == before

StoreAtDispatch(before, after) == after

\* lines 155-166: everything in setValue is inside try { } catch { }
setValueEscapesRethrow(threw) == threw

setValueEscapes(threw) == FALSE

\* line 162 is reached only when line 160 did not throw: the consumers whose
\* listener calls onStoreChange for the event setValue dispatches
DispatchedAlways(threw, t, key) ==
  {d \in Consumers : /\ <<"localStorageChange", d>> \in listeners[t]
                     /\ handleCustomStorageChange(Key(d), key)}

Dispatched(threw, t, key) ==
  IF threw THEN {}
  ELSE {d \in Consumers : /\ <<"localStorageChange", d>> \in listeners[t]
                          /\ handleCustomStorageChange(Key(d), key)}

\* the documents a storage event is worth queueing for: an event fired at a
\* window that has no "storage" listener runs no code
Listening(t) == \E d \in Consumers : <<"storage", d>> \in listeners[t]

\* the browser fires a storage event at every other document when a key's
\* item changed
Enqueue(events, writerTab, key, changed) ==
  [t \in Tabs |-> IF t # writerTab /\ changed /\ Listening(t)
                  THEN Append(events[t], key)
                  ELSE events[t]]

\* the writer waits while a queue it would add to is full
Room(writerTab) ==
  \A t \in Tabs \ {writerTab} : Listening(t) => Len(storageEvents[t]) < MaxQueue

MarkDirty(hk, changed) ==
  [c \in Consumers |->
     [hk[c] EXCEPT !.since = IF changed THEN 0 ELSE @]]

(***************************************************************************)
(* Initial state: a store another session may have left in any shape, no   *)
(* consumer mounted yet                                                    *)
(***************************************************************************)
Init ==
  /\ storeAvailable \in BOOLEAN
  /\ localStorage \in
       {[EmptyStore EXCEPT ![USER_DASHBOARD_STATE] = i] :
          i \in {NoItem} \cup {Item(x) : x \in SeedTexts}}
  /\ hook = [c \in Consumers |-> NoHook]
  /\ listeners = [t \in Tabs |-> {}]
  /\ storageEvents = [t \in Tabs |-> << >>]
  /\ pendingWrite = NoPending
  /\ last = Quiet
  /\ lastWritten = NoneWritten
  /\ FilterUnused /\ SearchUnused /\ AsyncUnused

(***************************************************************************)
(* Consumer lifecycle                                                      *)
(***************************************************************************)
\* first render of useLocalStorage, then the subscribe effect
MountStep(c) ==
  /\ ~hook[c].mounted
  /\ Idle(Tab(c))
  /\ hook' = [hook EXCEPT ![c] =
               [Render(NoHook, localStorage, storeAvailable) EXCEPT !.mounted = TRUE]]
  /\ listeners' = [listeners EXCEPT ![Tab(c)] = @ \cup subscribe(c)]
  /\ last' = Quiet
  /\ UNCHANGED <<localStorage, storeAvailable, storageEvents, pendingWrite, lastWritten>>

Mount(c) ==
  MountStep(c) /\ UNCHANGED <<filterVars, searchVars, asyncVars>>

\* teardown: the cleanup returned by subscribe runs and the instance is gone.
\* Nothing may touch its record afterwards.
Unmount(c) ==
  /\ hook[c].mounted
  /\ Idle(Tab(c))
  /\ hook' = [hook EXCEPT ![c] = TornDown]
  /\ listeners' = [listeners EXCEPT ![Tab(c)] = @ \ unsubscribe(c)]
  /\ last' = Quiet
  /\ UNCHANGED <<localStorage, storeAvailable, storageEvents, pendingWrite, lastWritten>>
  /\ UNCHANGED <<filterVars, searchVars, asyncVars>>

\* a render for any other reason (parent re-rendered): getSnapshot is read again
RerenderStep(c) ==
  /\ hook[c].mounted
  /\ Idle(Tab(c))
  /\ hook' = [hook EXCEPT ![c] = Render(hook[c], localStorage, storeAvailable)]
  /\ last' = Quiet
  /\ UNCHANGED <<localStorage, storeAvailable, listeners, storageEvents,
                 pendingWrite, lastWritten>>

Rerender(c) ==
  RerenderStep(c) /\ UNCHANGED <<filterVars, searchVars, asyncVars>>

(***************************************************************************)
(* setValue                                                                *)
(***************************************************************************)
\* lines 160-162 with newValue computed: setItem, then dispatchEvent, whose
\* listeners run synchronously; hk is the consumers' state when line 160 runs
WriteAndDispatch(c, newValue, hk, quotaOk) ==
  LET t == Tab(c)
      key == Key(c)
      w == setItem(localStorage, storeAvailable, key, JSONStringify(newValue), quotaOk)
      changed == w.store[key] # localStorage[key]
      seen == StoreAtDispatch(localStorage, w.store)
      notified == Dispatched(w.threw, t, key)
      hk1 == MarkDirty(hk, changed)
      own == pendingWrite.active /\ pendingWrite.c = c
  IN /\ localStorage' = w.store
     /\ storageEvents' = Enqueue(storageEvents, t, key, changed)
     /\ hook' = [d \in Consumers |->
                   IF d \in notified THEN OnStoreChange(hk1[d], seen, storeAvailable)
                   ELSE hk1[d]]
     /\ last' = IF w.threw
                THEN [op |-> "setValue", notified |-> notified, wrote |-> FALSE,
                      cause |-> "setItem", escaped |-> setValueEscapes(TRUE)]
                ELSE [op |-> "setValue", notified |-> notified, wrote |-> TRUE,
                      tab |-> t, v |-> newValue, changed |-> changed,
                      seen |-> seen[key],
                      lost |-> own /\ pendingWrite.base # localStorage[key],
                      by |-> c,
                      u |-> IF own THEN pendingWrite.u ELSE [op |-> "literal"],
                      before |-> IF own THEN pendingWrite.prev ELSE JUndefined,
                      base |-> IF own THEN pendingWrite.base ELSE NoItem,
                      undo |-> IF own THEN pendingWrite.undo ELSE [set |-> FALSE]]
     /\ lastWritten' = IF w.threw THEN lastWritten
                       ELSE [set |-> TRUE, v |-> newValue, by |-> c]

\* setValue(value) with a literal value
SetValueLiteral(c, v, quotaOk) ==
  /\ hook[c].mounted
  /\ Idle(Tab(c))
  /\ Room(Tab(c))
  /\ WriteAndDispatch(c, v, hook, quotaOk)
  /\ UNCHANGED <<storeAvailable, listeners, pendingWrite>>
  /\ UNCHANGED <<filterVars, searchVars, asyncVars>>

\* setValue(updater), lines 156-159: the updater is applied to getSnapshot();
\* an updater that throws is caught and nothing is written
SetValueUpdaterRead(c, u) ==
  /\ hook[c].mounted
  /\ ~pendingWrite.active
  /\ LET h1 == Read(hook[c], localStorage, storeAvailable)
         prev == UpdaterArgument(h1.lastRet.val, hook[c].storedValue.val)
         r == ApplyUpdater(u, prev)
         \* this call repeats the call whose write was the step before
         again == /\ last.op = "setValue" /\ last.wrote
                  /\ last.by = c /\ last.u = u /\ ~last.lost
     IN /\ hook' = [hook EXCEPT ![c] = h1]
        /\ pendingWrite' =
             IF r.threw THEN pendingWrite
             ELSE [active |-> TRUE, c |-> c, v |-> r.val,
                   base |-> localStorage[Key(c)], u |-> u, prev |-> prev,
                   undo |-> IF again THEN [set |-> TRUE, before |-> last.before]
                            ELSE [set |-> FALSE]]
        /\ last' = IF r.threw
                   THEN [op |-> "setValue", notified |-> {}, wrote |-> FALSE,
                         cause |-> "updater", escaped |-> setValueEscapes(TRUE)]
                   ELSE Quiet
  /\ UNCHANGED <<localStorage, storeAvailable, listeners, storageEvents, lastWritten>>
  /\ UNCHANGED <<filterVars, searchVars, asyncVars>>

\* setValue(updater), lines 160-162.  Another tab may have written the key
\* since the updater read it.
SetValueUpdaterWriteStep(quotaOk) ==
  /\ pendingWrite.active
  /\ Room(Tab(pendingWrite.c))
  /\ WriteAndDispatch(pendingWrite.c, pendingWrite.v, hook, quotaOk)
  /\ pendingWrite' = NoPending
  /\ UNCHANGED <<storeAvailable, listeners>>

SetValueUpdaterWrite(quotaOk) ==
  SetValueUpdaterWriteStep(quotaOk) /\ UNCHANGED <<filterVars, searchVars, asyncVars>>

(***************************************************************************)
(* Native storage events and other writers of the store                    *)
(***************************************************************************)
\* the browser delivers the oldest queued "storage" event to tab t
DeliverStorageStep(t) ==
  /\ storageEvents[t] # << >>
  /\ Idle(t)
  /\ LET eventKey == Head(storageEvents[t])
         notified == {d \in Consumers : /\ <<"storage", d>> \in listeners[t]
                                        /\ handleStorageChange(Key(d), eventKey)}
     IN /\ hook' = [d \in Consumers |->
                      IF d \in notified
                      THEN OnStoreChange(hook[d], localStorage, storeAvailable)
                      ELSE hook[d]]
        /\ last' = [op |-> "storage", notified |-> notified, tab |-> t,
                    key |-> eventKey]
  /\ storageEvents' = [storageEvents EXCEPT ![t] = Tail(@)]
  /\ UNCHANGED <<localStorage, storeAvailable, listeners, pendingWrite, lastWritten>>

DeliverStorage(t) ==
  DeliverStorageStep(t) /\ UNCHANGED <<filterVars, searchVars, asyncVars>>

\* a document of the same origin that does not run this hook stores text under k
ForeignSetItemStep(k, text) ==
  /\ storeAvailable
  /\ Room(0)
  /\ LET changed == localStorage[k] # Item(text)
     IN /\ localStorage' = [localStorage EXCEPT ![k] = Item(text)]
        /\ storageEvents' = Enqueue(storageEvents, 0, k, changed)
        /\ hook' = MarkDirty(hook, changed /\ k = USER_DASHBOARD_STATE)
  /\ lastWritten' = IF k = USER_DASHBOARD_STATE THEN NoneWritten ELSE lastWritten
  /\ last' = Quiet
  /\ UNCHANGED <<storeAvailable, listeners, pendingWrite>>

ForeignSetItem(k, text) ==
  ForeignSetItemStep(k, text) /\ UNCHANGED <<filterVars, searchVars, asyncVars>>

\* localStorage.clear() by such a document: one event with key null
ForeignClear ==
  /\ storeAvailable
  /\ Room(0)
  /\ localStorage # EmptyStore
  /\ localStorage' = EmptyStore
  /\ storageEvents' = Enqueue(storageEvents, 0, NullKey, TRUE)
  /\ hook' = MarkDirty(hook, localStorage[USER_DASHBOARD_STATE] # NoItem)
  /\ lastWritten' = NoneWritten
  /\ last' = Quiet
  /\ UNCHANGED <<storeAvailable, listeners, pendingWrite>>
  /\ UNCHANGED <<filterVars, searchVars, asyncVars>>

(***************************************************************************)
(* Spec: one tab with two consumers of the dashboard key; every other      *)
(* writer of the store is a foreign document                               *)
(***************************************************************************)
SameTab == {"A", "B"}

Next ==
  \/ \E c \in SameTab : Mount(c)
  \/ \E c \in SameTab : Unmount(c)
  \/ \E c \in SameTab : Rerender(c)
  \/ \E c \in SameTab, v \in LiteralValues, quotaOk \in BOOLEAN :
       SetValueLiteral(c, v, quotaOk)
  \/ \E c \in SameTab, u \in Updaters : SetValueUpdaterRead(c, u)
  \/ \E quotaOk \in BOOLEAN : SetValueUpdaterWrite(quotaOk)
  \/ \E t \in Tabs : DeliverStorage(t)
  \/ \E k \in Keys : \E text \in TextsFor(k) : ForeignSetItem(k, text)
  \/ ForeignClear

Spec == Init /\ [][Next]_vars

(***************************************************************************)
(* SpecTabs: two tabs that both run the hook, one consumer in each         *)
(***************************************************************************)
OnePerTab == {"A", "C"}

NextTabs ==
  \/ \E c \in OnePerTab : Mount(c)
  \/ \E c \in OnePerTab : Unmount(c)
  \/ \E c \in OnePerTab : Rerender(c)
  \/ \E c \in OnePerTab, v \in LiteralValues, quotaOk \in BOOLEAN :
       SetValueLiteral(c, v, quotaOk)
  \/ \E c \in OnePerTab, u \in Updaters : SetValueUpdaterRead(c, u)
  \/ \E quotaOk \in BOOLEAN : SetValueUpdaterWrite(quotaOk)
  \/ \E t \in Tabs : DeliverStorage(t)

SpecTabs == Init /\ [][NextTabs]_vars

(***************************************************************************)
(* SpecServer: one consumer whose fallback snapshot is read, before its    *)
(* first render and between its renders, while other documents change the  *)
(* store                                                                   *)
(***************************************************************************)
\* useSyncExternalStore calls getServerSnapshot() of consumer c
ServerSnapshot(c) ==
  /\ ~hook[c].tornDown
  /\ LET r == getServerSnapshot(hook[c].cache)
     IN /\ hook' = [hook EXCEPT ![c] = Canon([@ EXCEPT !.cache = r.cache])]
        /\ last' = [op |-> "server", notified |-> {}, ret |-> r.ret,
                    prev |-> IF last.op = "server" THEN last.ret ELSE NoRef,
                    cached |-> ~hook[c].cache.isNull]
  /\ UNCHANGED <<localStorage, storeAvailable, listeners, storageEvents,
                 pendingWrite, lastWritten>>
  /\ UNCHANGED <<filterVars, searchVars, asyncVars>>

\* the raw strings of ForeignTexts and the serialized default state
ServerTexts == ForeignTexts \cup {JSONStringify(DEFAULT_STATE)}

NextServer ==
  \/ Mount("A")
  \/ Rerender("A")
  \/ ServerSnapshot("A")
  \/ \E text \in ServerTexts : ForeignSetItem(USER_DASHBOARD_STATE, text)
  \/ ForeignClear

SpecServer == Init /\ [][NextServer]_vars

(***************************************************************************)
(* SpecDash: one dashboard that starts from the default state (nothing     *)
(* stored) and whose only writer is the controller's three mutators        *)
(***************************************************************************)
MaxPermsArg == 2

DashPermissions == {"admin", "editor"}

\* the arrays a caller may hand to setSelectedPermissions: UserPermission[]
PermissionArrays ==
  UNION {[1..n -> {JStr(p) : p \in DashPermissions}] : n \in 0..MaxPermsArg}

\* the calls of setSearchQuery, togglePermission and setSelectedPermissions
Mutators ==
  {[op |-> "setSearchQuery", q |-> q] : q \in SearchQueries}
    \cup {[op |-> "togglePermission", p |-> p] : p \in DashPermissions}
    \cup {[op |-> "setSelectedPermissions", perms |-> ps] : ps \in PermissionArrays}

InitDash ==
  /\ storeAvailable = TRUE
  /\ localStorage = EmptyStore
  /\ hook = [c \in Consumers |-> NoHook]
  /\ listeners = [t \in Tabs |-> {}]
  /\ storageEvents = [t \in Tabs |-> << >>]
  /\ pendingWrite = NoPending
  /\ last = Quiet
  /\ lastWritten = NoneWritten
  /\ FilterUnused /\ SearchUnused /\ AsyncUnused

NextDash ==
  \/ Mount("A")
  \/ Rerender("A")
  \/ \E u \in Mutators : SetValueUpdaterRead("A", u)
  \/ SetValueUpdaterWrite(TRUE)

SpecDash == InitDash /\ [][NextDash]_vars

(***************************************************************************)
(* filterUsers.  A string is the sequence of its characters, so that       *)
(* toLowerCase, trim, replace(/\s+/g, " ") and includes do what they do    *)
(***************************************************************************)
UpperLetters == <<"A", "B", "C", "D", "E", "F", "G", "H", "I", "J", "K", "L", "M", "N", "O", "P", "Q", "R", "S", "T", "U", "V", "W", "X", "Y", "Z">>
LowerLetters == <<"a", "b", "c", "d", "e", "f", "g", "h", "i", "j", "k", "l", "m", "n", "o", "p", "q", "r", "s", "t", "u", "v", "w", "x", "y", "z">>

LetterIndex(letters, c) == CHOOSE i \in 1..Len(letters) : letters[i] = c
IsIn(letters, c) == \E i \in 1..Len(letters) : letters[i] = c

\* String.prototype.toLowerCase: the sharp s is already lower case
toLowerCase(str) ==
  [i \in 1..Len(str) |->
     IF IsIn(UpperLetters, str[i]) THEN LowerLetters[LetterIndex(UpperLetters, str[i])]
     ELSE str[i]]

\* String.prototype.toUpperCase: the upper case of the sharp s is "SS"
UpperOf(c) ==
  IF IsIn(LowerLetters, c) THEN <<UpperLetters[LetterIndex(LowerLetters, c)]>>
  ELSE IF c = "ß" THEN <<"S", "S">>
  ELSE <<c>>

RECURSIVE toUpperCase(_)
toUpperCase(str) ==
  IF str = << >> THEN << >> ELSE UpperOf(Head(str)) \o toUpperCase(Tail(str))

\* the characters \s matches and trim strips
IsSpace(c) == c \in {" ", "\t"}

RECURSIVE TrimStart(_)
TrimStart(str) ==
  IF str # << >> /\ IsSpace(Head(str)) THEN TrimStart(Tail(str)) ELSE str

RECURSIVE TrimEnd(_)
TrimEnd(str) ==
  IF str # << >> /\ IsSpace(str[Len(str)])
  THEN TrimEnd(SubSeq(str, 1, Len(str) - 1)) ELSE str

\* String.prototype.trim
trim(str) == TrimEnd(TrimStart(str))

\* str.replace(/\s+/g, " "): every maximal run of white space becomes one space
RECURSIVE CollapseSpaces(_)
CollapseSpaces(str) ==
  IF str = << >> THEN << >>
  ELSE IF IsSpace(Head(str))
       THEN <<" ">> \o CollapseSpaces(TrimStart(Tail(str)))
       ELSE <<Head(str)>> \o CollapseSpaces(Tail(str))

\* String.prototype.includes
StrIncludes(str, part) ==
  \E i \in 0..(Len(str) - Len(part)) : SubSeq(str, i + 1, i + Len(part)) = part

\* Array.prototype.includes
ArrIncludes(arr, x) == \E i \in 1..Len(arr) : arr[i] = x

User(name, role, permission, team, contactInfo) ==
  [name |-> name, role |-> role, permission |-> permission, team |-> team,
   contactInfo |-> contactInfo]

\* line 33
normalizedQueryNoTrim(searchQuery) == CollapseSpaces(toLowerCase(searchQuery))

normalizedQuery(searchQuery) == CollapseSpaces(trim(toLowerCase(searchQuery)))

\* line 34
normalizedName(user) == CollapseSpaces(toLowerCase(user.name))

\* line 36
matchesSearch(user, searchQuery) ==
  \/ normalizedQuery(searchQuery) = << >>
  \/ StrIncludes(normalizedName(user), normalizedQuery(searchQuery))

\* lines 40-41
matchesPermissionFirst(user, selectedPermissions) ==
  \/ Len(selectedPermissions) = 0
  \/ selectedPermissions[1] = user.permission

matchesPermission(user, selectedPermissions) ==
  \/ Len(selectedPermissions) = 0
  \/ ArrIncludes(selectedPermissions, user.permission)

\* lines 25-46: users.filter returns a new array and leaves users as it was
filterUsersEither(users, searchQuery, selectedPermissions) ==
  SelectSeq(users, LAMBDA user : \/ matchesSearch(user, searchQuery)
                                 \/ matchesPermission(user, selectedPermissions))

filterUsers(users, searchQuery, selectedPermissions) ==
  SelectSeq(users, LAMBDA user : /\ matchesSearch(user, searchQuery)
                                 /\ matchesPermission(user, selectedPermissions))

\* the six users of the test suite
mockUsers ==
  << User(<<"A", "l", "i", "c", "e", " ", "J", "o", "h", "n", "s", "o", "n">>,
          "Senior Engineer", "admin", "Engineering", "alice@company.com"),
     User(<<"B", "o", "b", " ", "S", "m", "i", "t", "h">>,
          "Product Manager", "editor", "Product", "bob@company.com"),
     User(<<"C", "a", "r", "o", "l", " ", "D", "a", "v", "i", "s">>,
          "Designer", "viewer", "Design", "carol@company.com"),
     User(<<"D", "a", "v", "i", "d", " ", "W", "i", "l", "s", "o", "n">>,
          "Marketing Manager", "guest", "Marketing", "david@company.com"),
     User(<<"E", "m", "m", "a", " ", "B", "r", "o", "w", "n">>,
          "Data Analyst", "editor", "Data", "emma@company.com"),
     User(<<"F", "r", "a", "n", "k", " ", "M", "i", "l", "l", "e", "r">>,
          "Backend Developer", "admin", "Engineering", "frank@company.com") >>

(***************************************************************************)
(* SpecFilter: calls of filterUsers on bounded inputs                      *)
(***************************************************************************)
MaxUsers == 2

UserPool ==
  { User(<<"B", "o", "b">>, "Engineer", "admin", "Core", "bob@example.com"),
    User(<<"b", "o", " ", " ", "B">>, "Designer", "editor", "Web", "bo@example.com"),
    User(<<"a", "ß">>, "Engineer", "viewer", "Core", "as@example.com"),
    User(<<"O", "b">>, "Manager", "admin", "Web", "ob@example.com") }

UserArrays ==
  {mockUsers} \cup UNION {[1..n -> UserPool] : n \in 0..MaxUsers}

QueryInputs ==
  { << >>, <<" ">>, <<"b", "o">>, <<"B", "O">>, <<"o", " ", "b">>,
    <<"o", " ", "\t", "b">>, <<"ß">>, <<"x">>, <<"\t", "b">>,
    <<"M", "a", "n", "a", "g", "e", "r">> }

SelectedInputs ==
  { << >>, <<"admin">>, <<"viewer">>, <<"admin", "editor">>,
    <<"guest", "admin">>, <<"editor", "admin", "viewer">> }

Range(f) == {f[i] : i \in DOMAIN f}

InitFilter ==
  /\ fUsers \in UserArrays
  /\ fQuery \in QueryInputs
  /\ fSelected \in SelectedInputs
  /\ fCall = [kind |-> "none"]
  /\ StoreUnused /\ SearchUnused /\ AsyncUnused

\* filterUsers(users, searchQuery, selectedPermissions)
FilterCall ==
  /\ fCall' = [kind |-> "plain",
               out |-> filterUsers(fUsers, fQuery, fSelected)]
  /\ UNCHANGED <<fUsers, fQuery, fSelected, storeVars, searchVars, asyncVars>>

\* the same call with the query upper-cased, next to the call as given
FilterCallUpper ==
  /\ fCall' = [kind |-> "upper",
               out |-> filterUsers(fUsers, toUpperCase(fQuery), fSelected),
               ref |-> filterUsers(fUsers, fQuery, fSelected)]
  /\ UNCHANGED <<fUsers, fQuery, fSelected, storeVars, searchVars, asyncVars>>

\* the same call with the query padded with spaces
FilterCallPadded ==
  /\ fCall' = [kind |-> "padded",
               out |-> filterUsers(fUsers, <<" ", " ">> \o fQuery \o <<" ", " ">>,
                                   fSelected),
               ref |-> filterUsers(fUsers, fQuery, fSelected)]
  /\ UNCHANGED <<fUsers, fQuery, fSelected, storeVars, searchVars, asyncVars>>

\* the empty query with a part p1 of the selected permissions, next to the
\* empty query with all of them
FilterCallSubset(p1) ==
  /\ Range(p1) \subseteq Range(fSelected)
  /\ fCall' = [kind |-> "subset", p1 |-> p1,
               out |-> filterUsers(fUsers, << >>, p1),
               ref |-> filterUsers(fUsers, << >>, fSelected)]
  /\ UNCHANGED <<fUsers, fQuery, fSelected, storeVars, searchVars, asyncVars>>

NextFilter ==
  \/ FilterCall
  \/ FilterCallUpper
  \/ FilterCallPadded
  \/ \E p1 \in SelectedInputs : FilterCallSubset(p1)

SpecFilter == InitFilter /\ [][NextFilter]_vars

(***************************************************************************)
(* SpecSearch: ConnectedUserSearchBox, the search input of the dashboard.  *)
(* sbValue is the searchQuery of the context, handed down as value;        *)
(* onChange is setSearchQuery                                              *)
(***************************************************************************)
MaxDraft == 3

TypedChars == {"a", "b"}

\* queries another writer of the store may leave
ExternalQueries == {<< >>, <<"a">>}

\* SearchBox.handleChange: the values handed to onSearch
SearchBoxHandleChangeAlways(autoSearchOnClear, eventValue) == <<eventValue>>

SearchBoxHandleChange(autoSearchOnClear, eventValue) ==
  IF autoSearchOnClear /\ eventValue = << >> THEN <<eventValue>> ELSE << >>

\* SearchBox.handleKeyDown: the values handed to onSearch
SearchBoxHandleKeyDown(key, currentValue) ==
  IF key = "Enter" THEN <<currentValue>> ELSE << >>

\* SearchBox.handleSubmit: the values handed to onSearch
SearchBoxHandleSubmit(value) == <<value>>

\* SearchBox's default for the prop UserSearchBox does not set
autoSearchOnClearOff == FALSE

autoSearchOnClear == TRUE

\* UserSearchBox's effect on [value]: setDraftValue(value) when value changed
syncDraftNever(value, prevValue, draft) == draft

syncDraft(value, prevValue, draft) == IF value # prevValue THEN value ELSE draft

\* One event of the input.  UserSearchBox.handleChange has set the draft to
\* draftSet, handleSearch hands every search to onChange (setSearchQuery), and
\* the effect on [value] copies a changed value into the draft.
SearchBoxStep(op, draftSet, searches) ==
  LET value == IF searches = << >> THEN sbValue ELSE searches[Len(searches)]
  IN /\ sbValue' = value
     /\ sbDraft' = syncDraft(value, sbValue, draftSet)
     /\ sbLast' = [op |-> op, calls |-> Len(searches), changed |-> value # sbValue]
     /\ UNCHANGED <<storeVars, filterVars, asyncVars>>

InitSearch ==
  /\ sbValue \in ExternalQueries
  /\ sbDraft = sbValue
  /\ sbLast = [op |-> "mount", calls |-> 0, changed |-> FALSE]
  /\ StoreUnused /\ FilterUnused /\ AsyncUnused

\* the user types a character: keydown of that key, then change
TypeChar(ch) ==
  /\ Len(sbDraft) < MaxDraft
  /\ LET eventValue == Append(sbDraft, ch)
     IN SearchBoxStep("type", eventValue,
                      SearchBoxHandleKeyDown(ch, sbDraft)
                        \o SearchBoxHandleChange(autoSearchOnClear, eventValue))

\* the user deletes the last character: keydown of Backspace, then change
DeleteChar ==
  /\ sbDraft # << >>
  /\ LET eventValue == SubSeq(sbDraft, 1, Len(sbDraft) - 1)
     IN SearchBoxStep("delete", eventValue,
                      SearchBoxHandleKeyDown("Backspace", sbDraft)
                        \o SearchBoxHandleChange(autoSearchOnClear, eventValue))

\* the user presses Enter: keydown, then the form's implicit submission
PressEnter ==
  SearchBoxStep("enter", sbDraft,
                SearchBoxHandleKeyDown("Enter", sbDraft)
                  \o SearchBoxHandleSubmit(sbDraft))

\* the user clicks the Search button: the form is submitted
ClickSearch ==
  SearchBoxStep("click", sbDraft, SearchBoxHandleSubmit(sbDraft))

\* the persisted query changes from outside (another tab, another control)
ExternalChange(q) ==
  /\ q # sbValue
  /\ sbValue' = q
  /\ sbDraft' = syncDraft(q, sbValue, sbDraft)
  /\ sbLast' = [op |-> "external", calls |-> 0, changed |-> TRUE,
                discarded |-> sbDraft # sbValue]
  /\ UNCHANGED <<storeVars, filterVars, asyncVars>>

NextSearch ==
  \/ \E ch \in TypedChars : TypeChar(ch)
  \/ DeleteChar
  \/ PressEnter
  \/ ClickSearch
  \/ \E q \in ExternalQueries : ExternalChange(q)

SpecSearch == InitSearch /\ [][NextSearch]_vars

(***************************************************************************)
(* SpecAsync: one consumer of useAsync.  React applies the queued state    *)
(* updates at the next render, runs the effect after a render whose        *)
(* dependencies [data, refetchTrigger] changed (its cleanup first), runs   *)
(* pending effects before any later render, and runs the cleanup at        *)
(* unmount.                                                                *)
(***************************************************************************)
MaxUpdates == 3

\* the values of input.data a parent passes (references)
AsyncInputs == {"users1", "users2"}

Undefined == "undefined"
Absent == "absent"
NoDeps == << >>

\* lines 210-215 and 228-233
LoadingState ==
  [data |-> Undefined, isLoading |-> TRUE, isError |-> FALSE, isSuccess |-> FALSE,
   error |-> Absent]

\* lines 243-249
ErrorState ==
  [data |-> Undefined, isLoading |-> FALSE, isError |-> TRUE, isSuccess |-> FALSE,
   error |-> "Simulated async operation failed"]

\* lines 251-256
SuccessState(data) ==
  [data |-> data, isLoading |-> FALSE, isError |-> FALSE, isSuccess |-> TRUE,
   error |-> Absent]

\* lines 241-258: the state the timer's callback sets
timeoutCallbackStaysLoading(shouldError, data) == LoadingState

timeoutCallbackKeepsData(shouldError, data) ==
  IF shouldError THEN [ErrorState EXCEPT !.data = data] ELSE SuccessState(data)

timeoutCallback(shouldError, data) ==
  IF shouldError THEN ErrorState ELSE SuccessState(data)

\* line 218: the updater retry queues
toggleTrigger(prev) == ~prev

\* lines 260-262: clearTimeout(timeoutId) removes the timer the run set
cleanupLeak(timers) == timers

cleanup(timers) == {t \in timers : ~t.current}

\* a state update: an updater of refetchTrigger, or a value for state.  current
\* tells whether the effect run that caused it is the latest one, input is
\* the input.data of that run.
ToggleUpdate == [kind |-> "toggle"]
SetUpdate(state, input) ==
  [kind |-> "set", state |-> state, current |-> TRUE, input |-> input]

\* the updates a new effect run finds queued now belong to an earlier run
Supersede(queue) ==
  [i \in 1..Len(queue) |->
     IF queue[i].kind = "set" THEN [queue[i] EXCEPT !.current = FALSE]
     ELSE queue[i]]

Toggles(queue) == Cardinality({i \in 1..Len(queue) : queue[i].kind = "toggle"})
Sets(queue) == {i \in 1..Len(queue) : queue[i].kind = "set"}
LastSet(queue) == queue[CHOOSE i \in Sets(queue) : \A j \in Sets(queue) : j <= i]

RECURSIVE ApplyToggles(_, _)
ApplyToggles(trigger, n) ==
  IF n = 0 THEN trigger ELSE ApplyToggles(toggleTrigger(trigger), n - 1)

\* owed: retry() was called after the last run of the effect.  touched:
\* retry() was called or input.data changed after the rendered result was
\* set.  superseded: the rendered result was set by a timer of an earlier run.
\* input: the input.data of the run whose timer set the rendered result.
NotRendered ==
  [mounted |-> FALSE, tornDown |-> FALSE, data |-> Undefined,
   refetchTrigger |-> TRUE, state |-> LoadingState, ranDeps |-> NoDeps,
   owed |-> FALSE, superseded |-> FALSE, input |-> Undefined,
   touched |-> FALSE]

\* the dependencies of the effect at the last render
DepsWithState(h) == <<h.data, h.refetchTrigger, h.state>>

Deps(h) == <<h.data, h.refetchTrigger>>

\* the last render left the effect to run
EffectPending == aHook.mounted /\ aHook.ranDeps # Deps(aHook)

\* the store the input is derived from, when there is one.  stale: its raw
\* string changed after the provider's last render.  held: the effect's last
\* run followed a render that was not stale, and the raw string has not
\* changed since.
NoSource == [stale |-> FALSE, held |-> FALSE]

InitAsync ==
  /\ aHook = NotRendered
  /\ aQueue = << >>
  /\ aTimer = {}
  /\ aLast = [op |-> "none"]
  /\ aSource = NoSource
  /\ StoreUnused /\ FilterUnused /\ SearchUnused

\* the first render: useState's initial values
AsyncMountStep(data) ==
  /\ ~aHook.mounted /\ ~aHook.tornDown
  /\ aHook' = [NotRendered EXCEPT !.mounted = TRUE, !.data = data]
  /\ aLast' = [op |-> "mount"]
  /\ UNCHANGED <<aQueue, aTimer>>

AsyncMount(data) ==
  AsyncMountStep(data) /\ UNCHANGED <<aSource, storeVars, filterVars, searchVars>>

\* lines 222-263: the cleanup of the previous run, then the effect
RunEffect(shouldError) ==
  /\ EffectPending
  /\ aTimer' = {[t EXCEPT !.current = FALSE] :
                  t \in IF aHook.ranDeps = NoDeps THEN aTimer ELSE cleanup(aTimer)}
                \cup {[data |-> aHook.data, shouldError |-> shouldError,
                       current |-> TRUE]}
  /\ aQueue' = Append(Supersede(aQueue), SetUpdate(LoadingState, Undefined))
  /\ aHook' = [aHook EXCEPT !.ranDeps = Deps(aHook), !.owed = FALSE]
  /\ aLast' = [op |-> "effect"]
  /\ aSource' = [aSource EXCEPT !.held = ~aSource.stale]
  /\ UNCHANGED <<storeVars, filterVars, searchVars>>

\* a render, with input.data = data: the queued updates are applied
AsyncRenderStep(data) ==
  /\ aHook' =
       [aHook EXCEPT
          !.data = data,
          !.refetchTrigger = ApplyToggles(@, Toggles(aQueue)),
          !.state = IF Sets(aQueue) = {} THEN @ ELSE LastSet(aQueue).state,
          !.superseded = IF Sets(aQueue) = {} THEN @
                         ELSE ~LastSet(aQueue).current,
          !.input = IF Sets(aQueue) = {} THEN @ ELSE LastSet(aQueue).input,
          !.touched = IF data # aHook.data \/ Toggles(aQueue) > 0 THEN TRUE
                      ELSE IF Sets(aQueue) # {} THEN FALSE ELSE @]
  /\ aQueue' = << >>
  /\ aLast' = [op |-> "render", newInput |-> data # aHook.data]
  /\ UNCHANGED aTimer

AsyncRender(data) ==
  /\ aHook.mounted
  /\ ~EffectPending
  /\ aQueue # << >> \/ data # aHook.data
  /\ AsyncRenderStep(data)
  /\ UNCHANGED <<aSource, storeVars, filterVars, searchVars>>

\* lines 217-219: retry()
retry ==
  /\ aHook.mounted
  /\ Toggles(aQueue) < MaxUpdates
  /\ aQueue' = Append(aQueue, ToggleUpdate)
  /\ aHook' = [aHook EXCEPT !.owed = TRUE, !.touched = TRUE]
  /\ aLast' = [op |-> "retry"]
  /\ UNCHANGED <<aTimer, aSource, storeVars, filterVars, searchVars>>

\* a timer fires: its callback sets the state; React drops an update of a
\* component that is gone
TimerFires(t) ==
  /\ t \in aTimer
  /\ aTimer' = aTimer \ {t}
  /\ aQueue' = IF aHook.mounted
               THEN Append(aQueue,
                           [SetUpdate(timeoutCallback(t.shouldError, t.data), t.data)
                              EXCEPT !.current = t.current])
               ELSE aQueue
  /\ aLast' = [op |-> "timer", current |-> t.current, mounted |-> aHook.mounted]
  /\ UNCHANGED <<aHook, aSource, storeVars, filterVars, searchVars>>

\* teardown: the cleanup of the last run
AsyncUnmount ==
  /\ aHook.mounted
  /\ aHook' = [aHook EXCEPT !.mounted = FALSE, !.tornDown = TRUE]
  /\ aTimer' = IF aHook.ranDeps = NoDeps THEN aTimer ELSE cleanup(aTimer)
  /\ aQueue' = << >>
  /\ aLast' = [op |-> "unmount"]
  /\ UNCHANGED <<aSource, storeVars, filterVars, searchVars>>

NextAsync ==
  \/ \E data \in AsyncInputs : AsyncMount(data)
  \/ \E shouldError \in BOOLEAN : RunEffect(shouldError)
  \/ \E data \in AsyncInputs : AsyncRender(data)
  \/ retry
  \/ \E t \in aTimer : TimerFires(t)
  \/ AsyncUnmount

SpecAsync == InitAsync /\ [][NextAsync]_vars

\* React renders every update it has queued and runs every effect it has
\* scheduled, and the browser fires every timer that is not cleared
SpecAsyncFair ==
  /\ SpecAsync
  /\ WF_vars(\E t \in aTimer : TimerFires(t))
  /\ WF_vars(\E shouldError \in BOOLEAN : RunEffect(shouldError))
  /\ WF_vars(AsyncRender(aHook.data))

(***************************************************************************)
(* SpecQuery: the dashboard's provider (consumer A of the store) with the  *)
(* user grid below it, whose query input is derived from the provider's    *)
(* rendered state; another document writes the store                       *)
(***************************************************************************)
\* what filterFn (useCallback) and filteredData (useMemo) are memoized on:
\* the query string by value and the selectedPermissions array by reference,
\* which is the reference of the state object that holds it
UsersQueryDeps(ref) ==
  <<DashboardView(ref.val).searchQuery, [ref |-> ref.id]>>

OtherInput(data) == IF data = "users1" THEN "users2" ELSE "users1"

\* the filteredData of a render in which the provider's state goes from was
\* to now: the memoized array, or a new one
filteredData(data, was, now) ==
  IF UsersQueryDeps(was) = UsersQueryDeps(now) THEN data ELSE OtherInput(data)

\* the grid renders below a provider whose record is h1 after getSnapshot:
\* storedValue is the state of its last render, lastRet the one of this render
ContainerRender(h1) ==
  AsyncRenderStep(filteredData(aHook.data, h1.storedValue, h1.lastRet))

\* the raw strings of valid dashboard states another document stores
QueryTexts == {JSONStringify(DashState("a", <<JStr("admin")>>))}

QueryMutators ==
  {[op |-> "setSearchQuery", q |-> "a"], [op |-> "togglePermission", p |-> "admin"]}

InitQuery ==
  /\ storeAvailable \in BOOLEAN
  /\ localStorage \in
       {[EmptyStore EXCEPT ![USER_DASHBOARD_STATE] = i] :
          i \in {NoItem} \cup {Item(x) : x \in QueryTexts}}
  /\ hook = [c \in Consumers |-> NoHook]
  /\ listeners = [t \in Tabs |-> {}]
  /\ storageEvents = [t \in Tabs |-> << >>]
  /\ pendingWrite = NoPending
  /\ last = Quiet
  /\ lastWritten = NoneWritten
  /\ aHook = NotRendered
  /\ aQueue = << >>
  /\ aTimer = {}
  /\ aLast = [op |-> "none"]
  /\ aSource = NoSource
  /\ FilterUnused /\ SearchUnused

\* the first render of the provider and of the grid
QueryMount ==
  /\ MountStep("A")
  /\ AsyncMountStep("users1")
  /\ aSource' = NoSource
  /\ UNCHANGED <<filterVars, searchVars>>

\* the provider renders again and the grid with it
QueryRerender ==
  /\ aHook.mounted /\ ~EffectPending
  /\ RerenderStep("A")
  /\ ContainerRender(Read(hook["A"], localStorage, storeAvailable))
  /\ aSource' = [aSource EXCEPT !.stale = FALSE]
  /\ UNCHANGED <<filterVars, searchVars>>

\* what a notification of the provider does to the grid: onStoreChange
\* renders the provider when the snapshot is another reference
Notified(store, changed) ==
  LET h1 == Read(hook["A"], store, storeAvailable)
      moved == [aSource EXCEPT !.stale = @ \/ changed, !.held = @ /\ ~changed]
  IN IF "A" \in last'.notified /\ ~ObjectIs(h1.storedValue, h1.lastRet)
     THEN /\ ContainerRender(h1)
          /\ aSource' = [moved EXCEPT !.stale = FALSE]
     ELSE /\ aSource' = moved
          /\ UNCHANGED <<aHook, aQueue, aTimer, aLast>>

\* a mutator's setValue(updater) writes and dispatches
QueryWrite(quotaOk) ==
  /\ ~EffectPending
  /\ SetValueUpdaterWriteStep(quotaOk)
  /\ LET w == setItem(localStorage, storeAvailable, USER_DASHBOARD_STATE,
                      JSONStringify(pendingWrite.v), quotaOk)
     IN Notified(w.store, w.store # localStorage)
  /\ UNCHANGED <<filterVars, searchVars>>

\* a storage event reaches the provider's tab
QueryDeliver ==
  /\ ~EffectPending
  /\ DeliverStorageStep(1)
  /\ Notified(localStorage, FALSE)
  /\ UNCHANGED <<filterVars, searchVars>>

\* another document stores a dashboard state
QueryForeignSet(text) ==
  /\ ForeignSetItemStep(USER_DASHBOARD_STATE, text)
  /\ aSource' = IF localStorage[USER_DASHBOARD_STATE] # Item(text)
                THEN [stale |-> TRUE, held |-> FALSE] ELSE aSource
  /\ UNCHANGED <<aHook, aQueue, aTimer, aLast, filterVars, searchVars>>

\* the user clicks Retry, which the grid shows with a failed result
QueryRetry == aHook.state.isError /\ aQueue = << >> /\ retry

NextQuery ==
  \/ QueryMount
  \/ QueryRerender
  \/ \E u \in QueryMutators : SetValueUpdaterRead("A", u)
  \/ QueryWrite(TRUE)
  \/ QueryDeliver
  \/ \E text \in QueryTexts : QueryForeignSet(text)
  \/ \E shouldError \in BOOLEAN : RunEffect(shouldError)
  \/ AsyncRender(aHook.data)
  \/ QueryRetry
  \/ \E t \in aTimer : TimerFires(t)

SpecQuery == InitQuery /\ [][NextQuery]_vars

(***************************************************************************)
(* Properties                                                              *)
(***************************************************************************)
\* what a first read of the dashboard key returns now
StoreValue ==
  getSnapshot(localStorage, storeAvailable, USER_DASHBOARD_STATE, NullCache, {}).ret.val

\* reading the store throws, or the raw string under the key is not JSON
Unreadable ==
  \/ ~storeAvailable
  \/ /\ localStorage[USER_DASHBOARD_STATE].present
     /\ JSONParse(localStorage[USER_DASHBOARD_STATE].text).threw

Quiescent ==
  /\ \A t \in Tabs : storageEvents[t] = << >>
  /\ ~pendingWrite.active

MountedIn(t) == {c \in Consumers : hook[c].mounted /\ Tab(c) = t}

\* C1: two reads of getSnapshot by one consumer between which the raw string
\* under the key did not change return the identical reference, whatever the
\* store holds and also when reading it throws.
C1_ReferenceStability == \A c \in Consumers : hook[c].stable

\* a consumer read a stored JSON object twice with the raw string unchanged
C1_Witness ==
  \E c \in Consumers :
    hook[c].mounted /\ hook[c].since = 2 /\ hook[c].lastRet.id >= 2

\* C2: after a successful setValue(v), every consumer mounted on the key in
\* the writer's tab was notified through "localStorageChange" and the value it
\* returns is deep-equal to v.
C2_SameTabPropagation ==
  (last.op = "setValue" /\ last.wrote) =>
    \A d \in MountedIn(last.tab) :
      d \in last.notified /\ DeepEqual(hook[d].storedValue.val, last.v)

C2_Witness ==
  /\ last.op = "setValue" /\ last.wrote /\ last.changed
  /\ hook["A"].mounted /\ hook["B"].mounted
  /\ last.v # DEFAULT_STATE
  /\ DeepEqual(hook["B"].storedValue.val, last.v)

\* C3: when setValue dispatches its notification the new serialized value is
\* already stored, and every consumer that re-read in response read that
\* serialized value.
C3_WriteBeforeNotify ==
  (last.op = "setValue" /\ last.wrote) =>
    /\ last.seen = Item(JSONStringify(last.v))
    /\ \A d \in last.notified :
         /\ ~hook[d].cache.isNull
         /\ hook[d].cache.serialized = JSONStringify(last.v)

C3_Witness ==
  last.op = "setValue" /\ last.wrote /\ last.changed /\ last.notified # {}

\* C4: after a successful setValue(v) and no later write to the key, every
\* read of the key returns a value deep-equal to v, also the read of a consumer
\* mounted after the writer was torn down.
C4_RoundTrip ==
  lastWritten.set =>
    \A c \in Consumers :
      hook[c].since >= 1 => DeepEqual(hook[c].lastRet.val, lastWritten.v)

C4_Witness ==
  /\ lastWritten.set /\ lastWritten.by = "A" /\ hook["A"].tornDown
  /\ hook["B"].mounted /\ hook["B"].since = 1
  /\ lastWritten.v # DEFAULT_STATE
  /\ DeepEqual(hook["B"].storedValue.val, lastWritten.v)

\* C5: once a tab has written the key, all storage events are delivered and no
\* write is in progress, every mounted consumer in every tab returns a value
\* deep-equal to what the store now reads as.
C5_Convergence ==
  (lastWritten.set /\ Quiescent) =>
    \A c \in Consumers :
      hook[c].mounted => DeepEqual(hook[c].storedValue.val, StoreValue)

C5_Witness ==
  /\ lastWritten.set /\ lastWritten.by = "A" /\ Quiescent
  /\ hook["A"].mounted /\ hook["C"].mounted
  /\ last.op = "storage" /\ last.notified = {"C"}
  /\ lastWritten.v # DEFAULT_STATE
  /\ DeepEqual(hook["C"].storedValue.val, lastWritten.v)

\* C6: whenever reading the store throws or the raw string under the key is
\* not parseable JSON, a read returns a value equal to defaultValue.
C6_FallbackToDefault ==
  Unreadable =>
    \A c \in Consumers :
      hook[c].since >= 1 =>
        hook[c].lastRet # NoRef /\ DeepEqual(hook[c].lastRet.val, DEFAULT_STATE)

\* a consumer that had read a stored object reads the unparseable string
C6_Witness ==
  /\ storeAvailable
  /\ localStorage[USER_DASHBOARD_STATE] =
       Item(<<BadTok("invalid"), BadTok("json"), P("{")>>)
  /\ \E c \in Consumers :
       /\ hook[c].mounted /\ hook[c].since >= 1
       /\ hook[c].storedValue = DefaultRef

\* C7: when the store write inside setValue throws, setValue returns normally,
\* the store is unchanged, no notification is dispatched on either channel and
\* no consumer's value changes.
C7_WriteFailureIsSilent ==
  [][(last'.op = "setValue" /\ ~last'.wrote /\ last'.cause = "setItem") =>
       /\ ~last'.escaped
       /\ localStorage' = localStorage
       /\ storageEvents' = storageEvents
       /\ last'.notified = {}
       /\ \A c \in Consumers : hook'[c].storedValue = hook[c].storedValue]_vars

\* a write failed over quota with two consumers mounted
C7_Witness ==
  /\ last.op = "setValue" /\ ~last.wrote /\ last.cause = "setItem"
  /\ storeAvailable
  /\ hook["A"].mounted /\ hook["B"].mounted

\* C8: on a native storage event a mounted consumer of key k re-reads if and
\* only if the event's key is k or null; an event for another key leaves every
\* consumer as it was.
C8_StorageKeyFilter ==
  [][last'.op = "storage" =>
       /\ last'.notified =
            {d \in MountedIn(last'.tab) : last'.key \in {Key(d), NullKey}}
       /\ \A d \in Consumers \ last'.notified : hook'[d] = hook[d]]_vars

\* an event for another key was delivered to a tab with a mounted consumer
C8_Witness ==
  /\ last.op = "storage" /\ last.key = OtherKey /\ last.notified = {}
  /\ MountedIn(last.tab) # {}

\* C9: after a consumer is torn down both of its listeners are gone, no
\* notification calls its callback, nothing of it changes, and each window
\* holds exactly two listeners per mounted consumer.
C9_TeardownReleasesListeners ==
  /\ \A c \in Consumers :
       hook[c].tornDown =>
         /\ \A t \in Tabs : listeners[t] \cap subscribe(c) = {}
         /\ c \notin last.notified
         /\ hook[c] = TornDown
  /\ \A t \in Tabs : Cardinality(listeners[t]) = 2 * Cardinality(MountedIn(t))

\* a notification was dispatched to B after A was torn down
C9_Witness ==
  /\ hook["A"].tornDown /\ hook["B"].mounted
  /\ last.op = "setValue" /\ last.wrote /\ last.notified = {"B"}

\* the shape { searchQuery: string, selectedPermissions: string[] }
IsDashboardState(v) ==
  /\ v.type = "obj"
  /\ GetProp(v, "searchQuery").val.type = "str"
  /\ GetProp(v, "selectedPermissions").val.type = "arr"
  /\ \A i \in 1..Len(GetProp(v, "selectedPermissions").val.items) :
       GetProp(v, "selectedPermissions").val.items[i].type = "str"

\* the raw string under the dashboard key is unparseable or of another shape
Incompatible ==
  /\ storeAvailable
  /\ localStorage[USER_DASHBOARD_STATE].present
  /\ LET p == JSONParse(localStorage[USER_DASHBOARD_STATE].text)
     IN p.threw \/ ~IsDashboardState(p.val)

DefaultView ==
  [threw |-> FALSE, searchQuery |-> JStr(""), selectedPermissions |-> JArr(<< >>)]

\* C10: for every raw string under the dashboard key that is unparseable or
\* is JSON of another shape, the dashboard state that is read is the default
\* and no error surfaces.
C10_IncompatibleDegradesToDefault ==
  Incompatible =>
    \A c \in Consumers :
      (hook[c].mounted /\ hook[c].since >= 1 /\ hook[c].storedValue = hook[c].lastRet)
        => DashboardView(hook[c].storedValue.val) = DefaultView

\* selectedPermissions of the persisted dashboard state
PersistedPermissions == GetProp(StoreValue, "selectedPermissions").val.items

\* C11: in every persisted dashboard state reached from the default state
\* through the controller's mutators, selectedPermissions contains each
\* permission at most once.
C11_PermissionsAtMostOnce ==
  \A i, j \in 1..Len(PersistedPermissions) :
    i # j => PersistedPermissions[i] # PersistedPermissions[j]

\* C12: a successful setValue leaves the store holding exactly the value it
\* wrote, whatever another tab wrote before it; a setValue(updater) writes the
\* value it computed from what it read, so a write of another tab that landed
\* after that read is overwritten without merge.
C12_LastWriteWins ==
  [][(last'.op = "setValue" /\ last'.wrote) =>
       /\ localStorage'[USER_DASHBOARD_STATE] = Item(JSONStringify(last'.v))
       /\ (pendingWrite.active /\ ~pendingWrite'.active)
            => last'.v = pendingWrite.v]_vars

\* a setValue(updater) wrote after another tab had changed the key under it
C12_Witness ==
  /\ last.op = "setValue" /\ last.wrote /\ last.lost
  /\ lastWritten.set /\ lastWritten.v = last.v
  /\ localStorage[USER_DASHBOARD_STATE] = Item(JSONStringify(last.v))

\* the claim's condition for a record r to be returned
Selects(r, q, selected) ==
  LET nq == CollapseSpaces(trim(toLowerCase(q)))
  IN /\ nq = << >> \/ StrIncludes(CollapseSpaces(toLowerCase(r.name)), nq)
     /\ selected = << >> \/ r.permission \in Range(selected)

\* the positions of users that the claim's condition selects
Selected(users, q, selected) ==
  {i \in 1..Len(users) : Selects(users[i], q, selected)}

\* the k-th smallest member of a set of positions
Nth(idx, k) == CHOOSE i \in idx : Cardinality({j \in idx : j < i}) = k - 1

C14_CaseAndPaddingInvariance ==
  fCall.kind \in {"upper", "padded"} => fCall.out = fCall.ref

\* upper-casing the query and lower-casing it again gives its lower case
CaseRoundTrips(q) == toLowerCase(toUpperCase(q)) = toLowerCase(q)

\* C14 amended: the padded query returns what the query returns; the
\* upper-cased query does for every query whose upper case lower-cases back
\* to the query's lower case.
C14_CaseAndPaddingInvarianceAmended ==
  /\ fCall.kind = "padded" => fCall.out = fCall.ref
  /\ (fCall.kind = "upper" /\ CaseRoundTrips(fQuery)) => fCall.out = fCall.ref

\* an upper-cased query with letters that kept some records and dropped others
C14_Witness ==
  /\ fCall.kind = "upper" /\ fQuery = <<"b", "o">>
  /\ fCall.out # << >> /\ Len(fCall.out) < Len(fUsers)

\* C15: with the empty query, every record returned for a non-empty part p1
\* of the permission set p2 is returned for p2; the empty permission set
\* returns all records.
C15_PermissionsMonotone ==
  fCall.kind = "subset" =>
    IF fCall.p1 = << >> THEN fCall.out = fUsers
    ELSE \A i \in 1..Len(fCall.out) :
           \E j \in 1..Len(fCall.ref) : fCall.out[i] = fCall.ref[j]

\* a proper non-empty part of the selection returned some of the records the
\* whole selection returned
C15_Witness ==
  /\ fCall.kind = "subset" /\ fCall.p1 # << >>
  /\ Range(fCall.p1) # Range(fSelected)
  /\ fCall.out # << >> /\ Len(fCall.out) < Len(fCall.ref)

\* the names of the users a call returned
Names(out) == {out[i].name : i \in 1..Len(out)}

\* C16: on the six users of the test suite the query "Manager" returns more
\* than one and fewer than six users, Bob Smith and David Wilson among them
\* and Carol Davis not.
C16_QueryMatchesRole ==
  (/\ fCall.kind = "plain" /\ fUsers = mockUsers /\ fSelected = << >>
   /\ fQuery = <<"M", "a", "n", "a", "g", "e", "r">>)
    => /\ Len(fCall.out) > 1 /\ Len(fCall.out) < 6
       /\ <<"B", "o", "b", " ", "S", "m", "i", "t", "h">> \in Names(fCall.out)
       /\ <<"D", "a", "v", "i", "d", " ", "W", "i", "l", "s", "o", "n">>
            \in Names(fCall.out)
       /\ <<"C", "a", "r", "o", "l", " ", "D", "a", "v", "i", "s">>
            \notin Names(fCall.out)

\* C17 as claimed: no keystroke that edits the input calls setSearchQuery
\* or changes the persisted searchQuery.
C17_OnlySubmissionPersists ==
  [][sbLast'.op \in {"type", "delete"} =>
       sbLast'.calls = 0 /\ sbValue' = sbValue]_vars

\* C17 amended: a keystroke that leaves the input non-empty neither calls
\* setSearchQuery nor changes the persisted searchQuery; a keystroke that
\* empties the input calls setSearchQuery("") once.
C17_OnlySubmissionOrClearPersists ==
  [][sbLast'.op \in {"type", "delete"} =>
       IF sbDraft' # << >>
       THEN sbLast'.calls = 0 /\ sbValue' = sbValue
       ELSE sbLast'.calls = 1 /\ sbValue' = << >>]_vars

\* the user has typed over a persisted query and the draft differs from it
C17_Witness ==
  /\ sbLast.op = "type" /\ Len(sbDraft) = 2
  /\ sbValue = <<"a">> /\ sbDraft # sbValue

\* C18: once every retry() made so far has been rendered and the effects
\* have run, an effect run has followed the last retry(): the result was
\* moved to pending and a new delay cycle started.
C18_RetryStartsNewCycle ==
  (aHook.mounted /\ Toggles(aQueue) = 0 /\ ~EffectPending) => ~aHook.owed

C20_ResultShape ==
  LET st == aHook.state
  IN /\ Cardinality({f \in {"isLoading", "isError", "isSuccess"} : st[f]}) = 1
     /\ (st.data # Undefined) <=> st.isSuccess
     /\ st.isSuccess => st.data = aHook.input
     /\ (st.error # Absent) <=> st.isError
     /\ aLast.op = "mount" => st.isLoading

\* a succeeded result is shown whose data is not the input of the last render
C20_Witness ==
  /\ aHook.mounted /\ aHook.state.isSuccess
  /\ aHook.state.data = "users1" /\ aHook.data = "users2"

\* C21: a failed result, while no retry() was called and the input did not
\* change since it was reported, has no timer outstanding, carries the
\* generic message, and the next step leaves it failed with no timer
\* outstanding unless that step is a retry(), a new input or the teardown.
C21_FailedIsNotRetried ==
  [][(aHook.mounted /\ aHook.state.isError /\ ~aHook.touched) =>
       /\ aTimer = {}
       /\ aHook.state.error = "Simulated async operation failed"
       /\ \/ aHook'.touched
          \/ aHook'.tornDown
          \/ aHook'.state = aHook.state /\ aTimer' = {}]_vars

\* a failed result was rendered and nothing has disturbed it
C21_Witness ==
  /\ aHook.mounted /\ aHook.state.isError /\ ~aHook.touched
  /\ aLast.op = "render" /\ aQueue = << >>

\* C27: a succeeded result that is returned carries the input of the render
\* that returns it, never the previous input's data; the effect run that
\* follows a change of the input queues the pending state with data undefined.
C27_NewInputResets ==
  /\ (aHook.mounted /\ aHook.state.isSuccess) => aHook.state.data = aHook.data
  /\ aLast.op = "effect" =>
       aQueue[Len(aQueue)] = SetUpdate(LoadingState, Undefined)

\* a retry() was just called, the input was just changed, or the consumer is gone
Disturbed ==
  \/ aLast.op = "retry"
  \/ aLast.op = "render" /\ aLast.newInput
  \/ ~aHook.mounted

\* C28: a pending result of a mounted consumer eventually becomes succeeded
\* or failed, unless a retry(), a change of the input or the teardown comes
\* first.
C28_PendingResolves ==
  (aHook.mounted /\ aHook.state.isLoading)
    ~> (~aHook.state.isLoading \/ Disturbed)

\* a pending result was resolved by the timer of the first run
C28_Witness ==
  /\ aHook.mounted /\ ~aHook.state.isLoading /\ ~aHook.touched
  /\ aHook.refetchTrigger = TRUE /\ aLast.op = "render"

C30_DraftFollowsValue ==
  [][/\ sbValue' # sbValue => sbDraft' = sbValue'
     /\ sbLast'.op = "type" =>
          /\ sbValue' = sbValue
          /\ \E ch \in TypedChars : sbDraft' = Append(sbDraft, ch)]_vars

\* a change of the value from outside discarded what the user had typed
C30_Witness ==
  /\ sbLast.op = "external" /\ sbLast.discarded
  /\ sbDraft = sbValue

C23_UpdaterReadsStore ==
  [][(~pendingWrite.active /\ pendingWrite'.active) =>
       pendingWrite'.v = ApplyUpdater(pendingWrite'.u, StoreValue).val]_vars

\* the other tab has written, this tab's consumer has not been notified yet
\* and still shows another value, and its updater was applied to what the
\* other tab wrote
C23_Witness ==
  /\ pendingWrite.active
  /\ storageEvents[Tab(pendingWrite.c)] # << >>
  /\ lastWritten.set /\ lastWritten.by # pendingWrite.c
  /\ pendingWrite.prev = lastWritten.v
  /\ ~DeepEqual(hook[pendingWrite.c].storedValue.val, pendingWrite.prev)
  /\ pendingWrite.v #
       ApplyUpdater(pendingWrite.u, hook[pendingWrite.c].storedValue.val).val

\* the raw string the store held is a dashboard state
HeldDashboardState(item) ==
  /\ Truthy(item)
  /\ ~JSONParse(item.text).threw
  /\ IsDashboardState(JSONParse(item.text).val)

\* C25: with a readable store that holds a valid dashboard state, a write by
\* setSearchQuery leaves the persisted selectedPermissions as it was and a
\* write by togglePermission or setSelectedPermissions leaves the persisted
\* searchQuery as it was.
C25_MutatorsFrame ==
  (/\ last.op = "setValue" /\ last.wrote /\ ~last.lost
   /\ last.u.op # "literal" /\ HeldDashboardState(last.base)) =>
    LET held == JSONParse(last.base.text).val
    IN IF last.u.op = "setSearchQuery"
       THEN GetProp(StoreValue, "selectedPermissions").val =
              GetProp(held, "selectedPermissions").val
       ELSE GetProp(StoreValue, "searchQuery").val =
              GetProp(held, "searchQuery").val

\* setSearchQuery has replaced the query of a stored state in which a
\* permission is selected
C25_Witness ==
  /\ last.op = "setValue" /\ last.wrote /\ ~last.lost
  /\ last.u.op = "setSearchQuery"
  /\ HeldDashboardState(last.base)
  /\ GetProp(last.before, "selectedPermissions").val.items # << >>
  /\ GetProp(last.before, "searchQuery").val # JStr(last.u.q)
  /\ GetProp(StoreValue, "searchQuery").val = JStr(last.u.q)

PermissionSet(state) ==
  LET items == GetProp(state, "selectedPermissions").val.items
  IN {items[i] : i \in 1..Len(items)}

\* C26: when togglePermission(p) is called twice in a row, with no other
\* write between the two writes, the persisted selectedPermissions holds the
\* same set of permissions after the second write as before the first call.
C26_ToggleTwice ==
  (/\ last.op = "setValue" /\ last.wrote /\ ~last.lost
   /\ last.u.op = "togglePermission" /\ last.undo.set) =>
    /\ PermissionSet(last.v) = PermissionSet(last.undo.before)
    /\ PermissionSet(StoreValue) = PermissionSet(last.undo.before)

\* p was removed and added back while another permission stayed selected
C26_Witness ==
  /\ last.op = "setValue" /\ last.wrote
  /\ last.u.op = "togglePermission" /\ last.undo.set
  /\ Cardinality(PermissionSet(StoreValue)) = 2
  /\ GetProp(StoreValue, "selectedPermissions").val #
       GetProp(last.undo.before, "selectedPermissions").val

\* C24: while the raw string under the dashboard key is the one the
\* provider rendered when the query started, however often the provider
\* renders and whatever is written that leaves the string as it is, the
\* effect of useAsync runs again only with the input it ran with before and
\* a refetchTrigger that retry() has toggled: nothing else resets a result to
\* pending or sets a timer again.
C24_NoRestartWhileUnchanged ==
  [][(/\ aLast'.op = "effect" /\ aQueue' # aQueue /\ aTimer' # aTimer
      /\ aHook.ranDeps # NoDeps /\ aSource.held) =>
       /\ aHook.ranDeps[1] = aHook.data
       /\ aHook.ranDeps[2] # aHook.refetchTrigger]_vars

\* the query has succeeded, the provider has written the string the store
\* already held, and no timer is set
C24_Witness ==
  /\ aSource.held /\ ~aSource.stale
  /\ aHook.mounted /\ aHook.state.isSuccess /\ aTimer = {} /\ aQueue = << >>
  /\ ~EffectPending
  /\ last.op = "setValue" /\ last.wrote /\ ~last.changed /\ "A" \in last.notified
  /\ Truthy(localStorage[USER_DASHBOARD_STATE])

====
